---------------------------- MODULE Spec2Model ----------------------------
(***************************************************************************)
(* A model of the ROBDD manager of pydd (src/pydd/bdd.py, class BDD) and   *)
(* of the earlier manager kept in src/pydd/bdd/bdd.py, with the callers    *)
(* that drive them: any caller, a caller of the Boolean operators alone,   *)
(* and the script src/examples/transition_system.py.                       *)
(*                                                                         *)
(* The manager is one object; every method is a synchronous recursive      *)
(* computation, so every public method is one action.  The methods are     *)
(* written as operators over a record `self` holding the object's fields   *)
(* and the five functools.lru_cache tables; each returns                   *)
(*   [self |-> the object afterwards, ret |-> the value, err |-> exception]*)
(* so that a Python exception raised half-way leaves the nodes and cache   *)
(* entries written before it in place, as in the code.                     *)
(***************************************************************************)
EXTENDS Integers, Sequences, FiniteSets, TLC

(***************************************************************************)
(* Bounds of the model.                                                    *)
(***************************************************************************)
\* number of variables the caller declares at most
MaxVars == 2
\* operations that may allocate nodes are started only while _node_id is at most this
MaxNodeId == 6
\* calls on nodes (everything but the declaration of a variable) the caller makes at most
MaxCalls == 3
\* the same when the caller also passes the terminals 0 and 1 to every operator
MaxAlgCalls == 2

(***************************************************************************)
(* The object's fields and the memo tables.                                *)
(***************************************************************************)
VARIABLES
  variable_ordering,    \* self._variable_ordering: is_primed of each BDDVariable, by level
  var_id,               \* self._var_id
  node_id,              \* self._node_id
  node_to_row,          \* self._node_to_row: id -> <<var_id, n1, n0>>
  row_to_node,          \* self._row_to_node: <<var_id, n1, n0>> -> id
  node_to_var_id,       \* self._node_to_var_id: id -> level (Infinity for 0 and 1)
  cache_get_cofactors,  \* lru_cache of get_cofactors: <<n, var_id>> -> <<n1, n0>>
  cache_ite,            \* lru_cache of ite: <<a, b, c>> -> id
  cache_conjunction,    \* lru_cache of conjunction: <<a, b>> -> id
  cache_disjunction,    \* lru_cache of disjunction: <<a, b>> -> id
  cache_pre_image,      \* lru_cache of pre_image: <<a, b>> -> id
  formulas,             \* the caller's handles: <<id, truth table of the formula it built>>
  last,                 \* the last call: its name, arguments, result and exception
  clears,               \* how many calls of clear have completed
  calls,                \* how many calls the caller has made on nodes
  script                \* the local variables of examples/transition_system.py

vars == <<variable_ordering, var_id, node_id, node_to_row, row_to_node, node_to_var_id,
          cache_get_cofactors, cache_ite, cache_conjunction, cache_disjunction,
          cache_pre_image, formulas, last, clears, calls, script>>

\* the variables examples/transition_system.py declares: x0, x0', x1, x1'
ScriptVars == 4

\* float("infinity"): greater than every level a variable can have
Infinity == MaxVars + ScriptVars + 1

\* levels 0 .. NumLevels - 1 cover every variable any caller below declares
NumLevels == IF MaxVars > ScriptVars THEN MaxVars ELSE ScriptVars

None == "none"
NoRet == -1
EmptyMap == [x \in {} |-> 0]

get_one_node == 1

get_zero_node == 0

Terminals == {get_zero_node, get_one_node}

\* the object as one value
Self ==
  [variable_ordering |-> variable_ordering, var_id |-> var_id, node_id |-> node_id,
   node_to_row |-> node_to_row, row_to_node |-> row_to_node,
   node_to_var_id |-> node_to_var_id,
   cache_get_cofactors |-> cache_get_cofactors, cache_ite |-> cache_ite,
   cache_conjunction |-> cache_conjunction, cache_disjunction |-> cache_disjunction,
   cache_pre_image |-> cache_pre_image]

Return(self, r) == [self |-> self, ret |-> r, err |-> None]

Raise(self, e) == [self |-> self, ret |-> NoRet, err |-> e]

Min2(x, y) == IF x <= y THEN x ELSE y

Min3(x, y, z) == Min2(x, Min2(y, z))

(***************************************************************************)
(* BDD.create_variable: the new variable gets level _var_id.               *)
(***************************************************************************)
create_variable(self, is_primed) ==
  Return([self EXCEPT !.var_id = @ + 1,
                      !.variable_ordering = Append(@, is_primed)],
         self.var_id)

(***************************************************************************)
(* BDD.get_succs: self._node_to_row[n], a KeyError when n has no row.      *)
(***************************************************************************)
get_succs(self, n) ==
  IF n \notin DOMAIN self.node_to_row
    THEN Raise(self, "KeyError")
    ELSE Return(self, <<self.node_to_row[n][2], self.node_to_row[n][3]>>)

(***************************************************************************)
(* Sequencing.  Then(r, F) is "evaluate r; if it raised, the exception     *)
(* propagates, else continue with F on its outcome".  The outcome is bound *)
(* as a value, so a call is evaluated once, as a Python statement is.      *)
(***************************************************************************)
Then(r, F(_)) == CHOOSE y \in {IF x.err # None THEN x ELSE F(x) : x \in {r}} : TRUE

(***************************************************************************)
(* BDD.get_cofactors under @functools.lru_cache: a hit returns the stored  *)
(* pair without running the body; a body that raises stores nothing.       *)
(* v is the variable's var_id (BDDVariable hashes and compares by it).     *)
(* lru_cache keeps 128 entries per table; no run within the bounds here    *)
(* fills a table that far, so no entry is dropped for lack of room.        *)
(***************************************************************************)
get_cofactors_body(self, n, v) ==
  IF n = get_zero_node \/ n = get_one_node THEN Return(self, <<n, n>>)
  ELSE IF n \notin DOMAIN self.node_to_var_id THEN Raise(self, "KeyError")
  ELSE IF v < self.node_to_var_id[n] THEN Return(self, <<n, n>>)
  ELSE get_succs(self, n)

get_cofactors(self, n, v) ==
  IF <<n, v>> \in DOMAIN self.cache_get_cofactors
    THEN Return(self, self.cache_get_cofactors[<<n, v>>])
    ELSE Then(get_cofactors_body(self, n, v), LAMBDA r :
           [r EXCEPT !.self.cache_get_cofactors = (<<n, v>> :> r.ret) @@ @])

(***************************************************************************)
(* BDD.make: reduction rule, unique-table lookup, else a fresh identifier. *)
(***************************************************************************)
\* make without the unique-table lookup: every triple gets a fresh identifier
make_unshared(self, v, n1, n0) ==
  IF n1 = n0 THEN Return(self, n1)
  ELSE Return([self EXCEPT
                 !.node_to_row = (self.node_id :> <<v, n1, n0>>) @@ @,
                 !.node_to_var_id = (self.node_id :> v) @@ @,
                 !.row_to_node = (<<v, n1, n0>> :> self.node_id) @@ @,
                 !.node_id = @ + 1],
              self.node_id)

\* make without the reduction rule: a node is stored even when high = low
make_unreduced(self, v, n1, n0) ==
  IF <<v, n1, n0>> \in DOMAIN self.row_to_node
    THEN Return(self, self.row_to_node[<<v, n1, n0>>])
  ELSE Return([self EXCEPT
                 !.node_to_row = (self.node_id :> <<v, n1, n0>>) @@ @,
                 !.node_to_var_id = (self.node_id :> v) @@ @,
                 !.row_to_node = (<<v, n1, n0>> :> self.node_id) @@ @,
                 !.node_id = @ + 1],
              self.node_id)

make(self, v, n1, n0) ==
  IF n1 = n0 THEN Return(self, n1)
  ELSE IF <<v, n1, n0>> \in DOMAIN self.row_to_node
    THEN Return(self, self.row_to_node[<<v, n1, n0>>])
  ELSE Return([self EXCEPT
                 !.node_to_row = (self.node_id :> <<v, n1, n0>>) @@ @,
                 !.node_to_var_id = (self.node_id :> v) @@ @,
                 !.row_to_node = (<<v, n1, n0>> :> self.node_id) @@ @,
                 !.node_id = @ + 1],
              self.node_id)

(***************************************************************************)
(* BDD.ite.  The three level lookups raise KeyError for an identifier that *)
(* has no entry in _node_to_var_id.                                        *)
(***************************************************************************)
RECURSIVE ite(_, _, _, _)
ite_body(self, a, b, c) ==
  IF a = get_one_node THEN Return(self, b)
  ELSE IF a = get_zero_node THEN Return(self, c)
  ELSE IF ~ ({a, b, c} \subseteq DOMAIN self.node_to_var_id) THEN Raise(self, "KeyError")
  ELSE
    LET min_var_id == Min3(self.node_to_var_id[a], self.node_to_var_id[b],
                           self.node_to_var_id[c]) IN
    Then(get_cofactors(self, a, min_var_id), LAMBDA ca :
    Then(get_cofactors(ca.self, b, min_var_id), LAMBDA cb :
    Then(get_cofactors(cb.self, c, min_var_id), LAMBDA cc :
    Then(ite(cc.self, ca.ret[1], cb.ret[1], cc.ret[1]), LAMBDA w1 :
    Then(ite(w1.self, ca.ret[2], cb.ret[2], cc.ret[2]), LAMBDA w0 :
      IF w0.ret = w1.ret THEN Return(w0.self, w0.ret)
      ELSE make(w0.self, min_var_id, w1.ret, w0.ret))))))

ite(self, a, b, c) ==
  IF <<a, b, c>> \in DOMAIN self.cache_ite
    THEN Return(self, self.cache_ite[<<a, b, c>>])
    ELSE Then(ite_body(self, a, b, c), LAMBDA r :
           [r EXCEPT !.self.cache_ite = (<<a, b, c>> :> r.ret) @@ @])

(***************************************************************************)
(* BDD.neg                                                                 *)
(***************************************************************************)
\* neg with the branches of the ite exchanged
neg_swapped(self, a) == ite(self, a, get_one_node, get_zero_node)

neg(self, a) == ite(self, a, get_zero_node, get_one_node)

(***************************************************************************)
(* BDD.conjunction                                                         *)
(***************************************************************************)
RECURSIVE conjunction(_, _, _)
conjunction_body(self, a, b) ==
  IF a = get_zero_node \/ b = get_zero_node THEN Return(self, get_zero_node)
  ELSE IF a = b /\ a = get_one_node THEN Return(self, get_one_node)
  ELSE IF ~ ({a, b} \subseteq DOMAIN self.node_to_var_id) THEN Raise(self, "KeyError")
  ELSE
    LET min_var_id == Min2(self.node_to_var_id[a], self.node_to_var_id[b]) IN
    Then(get_cofactors(self, a, min_var_id), LAMBDA ca :
    Then(get_cofactors(ca.self, b, min_var_id), LAMBDA cb :
    Then(conjunction(cb.self, ca.ret[1], cb.ret[1]), LAMBDA w1 :
    Then(conjunction(w1.self, ca.ret[2], cb.ret[2]), LAMBDA w0 :
      make(w0.self, min_var_id, w1.ret, w0.ret)))))

conjunction(self, a, b) ==
  IF <<a, b>> \in DOMAIN self.cache_conjunction
    THEN Return(self, self.cache_conjunction[<<a, b>>])
    ELSE Then(conjunction_body(self, a, b), LAMBDA r :
           [r EXCEPT !.self.cache_conjunction = (<<a, b>> :> r.ret) @@ @])

(***************************************************************************)
(* BDD.disjunction                                                         *)
(***************************************************************************)
RECURSIVE disjunction(_, _, _)
disjunction_body(self, a, b) ==
  IF a = get_one_node \/ b = get_one_node THEN Return(self, get_one_node)
  ELSE IF a = b /\ a = get_zero_node THEN Return(self, get_zero_node)
  ELSE IF ~ ({a, b} \subseteq DOMAIN self.node_to_var_id) THEN Raise(self, "KeyError")
  ELSE
    LET min_var_id == Min2(self.node_to_var_id[a], self.node_to_var_id[b]) IN
    Then(get_cofactors(self, a, min_var_id), LAMBDA ca :
    Then(get_cofactors(ca.self, b, min_var_id), LAMBDA cb :
    Then(disjunction(cb.self, ca.ret[1], cb.ret[1]), LAMBDA w1 :
    Then(disjunction(w1.self, ca.ret[2], cb.ret[2]), LAMBDA w0 :
      make(w0.self, min_var_id, w1.ret, w0.ret)))))

disjunction(self, a, b) ==
  IF <<a, b>> \in DOMAIN self.cache_disjunction
    THEN Return(self, self.cache_disjunction[<<a, b>>])
    ELSE Then(disjunction_body(self, a, b), LAMBDA r :
           [r EXCEPT !.self.cache_disjunction = (<<a, b>> :> r.ret) @@ @])

(***************************************************************************)
(* BDD.pre_image.  self._variable_ordering is a Python list indexed from   *)
(* 0, the sequence here from 1.  In the primed branch a cofactor pair      *)
(* (a, a) makes the first recursive call the very call being evaluated:    *)
(* Python recurses until RecursionError.  In the unprimed branch           *)
(* _variable_ordering[min_var_id + 1] is an IndexError when the minimum    *)
(* variable is the last one declared.                                      *)
(***************************************************************************)
RECURSIVE pre_image(_, _, _)
\* pre_image that hands the relation back
pre_image_relation(self, a, b) == Return(self, a)

\* pre_image without the quantification: the conjunction of its operands
pre_image_unquantified(self, a, b) == conjunction(self, a, b)

pre_image_body(self, a, b) ==
  IF a = get_zero_node \/ b = get_zero_node THEN Return(self, get_zero_node)
  ELSE IF a = get_one_node /\ b = get_one_node THEN Return(self, get_one_node)
  ELSE IF ~ ({a, b} \subseteq DOMAIN self.node_to_var_id) THEN Raise(self, "KeyError")
  ELSE
    LET min_var_id == Min2(self.node_to_var_id[a], self.node_to_var_id[b])
        min_var_primed == min_var_id + 1
    IN
    IF self.variable_ordering[min_var_id + 1]
      THEN
        Then(get_cofactors(self, a, min_var_id), LAMBDA ca :
        IF ca.ret[1] = a THEN Raise(ca.self, "RecursionError") ELSE
        Then(pre_image(ca.self, ca.ret[1], b), LAMBDA w1 :
        Then(pre_image(w1.self, ca.ret[2], b), LAMBDA w0 :
          disjunction(w0.self, w1.ret, w0.ret))))
      ELSE
        IF min_var_primed >= Len(self.variable_ordering) THEN Raise(self, "IndexError")
        ELSE
        Then(get_cofactors(self, a, min_var_id), LAMBDA ca :
        Then(get_cofactors(ca.self, b, min_var_id), LAMBDA cb :
        Then(get_cofactors(cb.self, ca.ret[1], min_var_primed), LAMBDA c1 :
        Then(get_cofactors(c1.self, ca.ret[2], min_var_primed), LAMBDA c0 :
        Then(pre_image(c0.self, c1.ret[2], cb.ret[2]), LAMBDA w10 :
        Then(pre_image(w10.self, c1.ret[1], cb.ret[1]), LAMBDA w11 :
        Then(pre_image(w11.self, c0.ret[2], cb.ret[2]), LAMBDA w00 :
        Then(pre_image(w00.self, c0.ret[1], cb.ret[1]), LAMBDA w01 :
        Then(disjunction(w01.self, w10.ret, w11.ret), LAMBDA d1 :
        Then(disjunction(d1.self, w00.ret, w01.ret), LAMBDA d0 :
          make(d0.self, min_var_id, d1.ret, d0.ret)))))))))))

pre_image(self, a, b) ==
  IF <<a, b>> \in DOMAIN self.cache_pre_image
    THEN Return(self, self.cache_pre_image[<<a, b>>])
    ELSE Then(pre_image_body(self, a, b), LAMBDA r :
           [r EXCEPT !.self.cache_pre_image = (<<a, b>> :> r.ret) @@ @])

(***************************************************************************)
(* BDD.node_from_variable and BDD.create_variable_node                     *)
(***************************************************************************)
node_from_variable(self, v) == make(self, v, get_one_node, get_zero_node)

create_variable_node(self, is_primed) ==
  Then(create_variable(self, is_primed), LAMBDA r : node_from_variable(r.self, r.ret))

(***************************************************************************)
(* BDD.clear.  clear_explore is the while loop over the deque: it raises   *)
(* KeyError (from get_succs) before anything is deleted when it reaches an *)
(* identifier without a row.  The memo tables are not touched.             *)
(***************************************************************************)
RECURSIVE SortedSeq(_)
SortedSeq(S) ==
  IF S = {} THEN << >>
  ELSE LET m == CHOOSE x \in S : \A y \in S : x <= y IN <<m>> \o SortedSeq(S \ {m})

Unexplored(succs, explored) == SelectSeq(succs, LAMBDA n : n \notin explored)

RECURSIVE clear_explore(_, _, _)
clear_explore(self, queue, explored) ==
  IF queue = << >> THEN Return(self, explored)
  ELSE IF Head(queue) \in {get_one_node, get_zero_node}
    THEN clear_explore(self, Tail(queue), explored \cup {Head(queue)})
  ELSE Then(get_succs(self, Head(queue)), LAMBDA succs :
         clear_explore(self,
                       Tail(queue) \o Unexplored(succs.ret, explored \cup {Head(queue)}),
                       explored \cup {Head(queue)}))

\* clear_delete that also forgets the declared variables
clear_delete_registry(self, inactive_nodes) ==
  [self EXCEPT
     !.node_to_var_id = [n \in (DOMAIN @) \ inactive_nodes |-> @[n]],
     !.row_to_node = [r \in (DOMAIN @) \ {self.node_to_row[n] : n \in inactive_nodes} |-> @[r]],
     !.node_to_row = [n \in (DOMAIN @) \ inactive_nodes |-> @[n]],
     !.var_id = 0,
     !.variable_ordering = << >>]

\* clear_delete that leaves the unique table as it was
clear_delete_keeping_rows(self, inactive_nodes) ==
  [self EXCEPT
     !.node_to_var_id = [n \in (DOMAIN @) \ inactive_nodes |-> @[n]],
     !.node_to_row = [n \in (DOMAIN @) \ inactive_nodes |-> @[n]]]

\* clear_delete that hands the evicted identifiers out again
clear_delete_recycling(self, inactive_nodes) ==
  [self EXCEPT
     !.node_to_var_id = [n \in (DOMAIN @) \ inactive_nodes |-> @[n]],
     !.row_to_node = [r \in (DOMAIN @) \ {self.node_to_row[n] : n \in inactive_nodes} |-> @[r]],
     !.node_to_row = [n \in (DOMAIN @) \ inactive_nodes |-> @[n]],
     !.node_id = CHOOSE i \in 2 .. self.node_id :
                   /\ \A n \in (DOMAIN self.node_to_row) \ inactive_nodes : n < i
                   /\ \A j \in 2 .. (i - 1) : \E n \in (DOMAIN self.node_to_row) \ inactive_nodes : j <= n]

clear_delete(self, inactive_nodes) ==
  [self EXCEPT
     !.node_to_var_id = [n \in (DOMAIN @) \ inactive_nodes |-> @[n]],
     !.row_to_node = [r \in (DOMAIN @) \ {self.node_to_row[n] : n \in inactive_nodes} |-> @[r]],
     !.node_to_row = [n \in (DOMAIN @) \ inactive_nodes |-> @[n]]]

clear(self, nodes) ==
  Then(clear_explore(self, nodes, {}), LAMBDA e :
    Return(clear_delete(self, (DOMAIN self.node_to_row) \ e.ret),
           (DOMAIN self.node_to_row) \ e.ret))

(***************************************************************************)
(* Truth tables.  An assignment is the set of levels whose variable is     *)
(* true; a truth table is the set of assignments that satisfy a function.  *)
(* The caller's side carries, with every handle, the truth table of the    *)
(* formula that produced it, computed from the formula alone.              *)
(***************************************************************************)
Levels == 0 .. (NumLevels - 1)

Assignments == SUBSET Levels

TTFalse == {}

TTTrue == Assignments

TTVar(v) == {A \in Assignments : v \in A}

TTNot(t) == Assignments \ t

TTIte(t, u, w) == (t \cap u) \cup ((Assignments \ t) \cap w)

\* the levels a truth table depends on
TTSupport(t) == {v \in Levels : \E A \in Assignments : (A \in t) # ((A \cup {v}) \in t)}

\* the interleaved ordering pre_image asks for: x_i at level 2i, x_i' at level 2i + 1
Interleaved(ordering) ==
  /\ Len(ordering) % 2 = 0
  /\ \A i \in 1 .. Len(ordering) : ordering[i] = (i % 2 = 0)

PrimedLevels == {v \in Levels : v % 2 = 1}

\* { x | exists x'. T(x, x') /\ S(x') }, S written over the unprimed variables
TTPreImage(t, u) ==
  {A \in Assignments :
     \E B \in SUBSET PrimedLevels :
        /\ ((A \ PrimedLevels) \cup B) \in t
        /\ {v - 1 : v \in B} \in u}

\* the function a stored identifier denotes: if v then high else low
RECURSIVE Denotes(_, _)
Denotes(rows, n) ==
  IF n = get_zero_node THEN TTFalse
  ELSE IF n = get_one_node THEN TTTrue
  ELSE LET hi == Denotes(rows, rows[n][2])
           lo == Denotes(rows, rows[n][3])
       IN {A \in Assignments : IF rows[n][1] \in A THEN A \in hi ELSE A \in lo}

\* identifiers reachable from a set through child edges (an identifier without a row has none)
RECURSIVE Reachable(_, _)
Reachable(rows, S) ==
  LET next == S \cup UNION {{rows[n][2], rows[n][3]} : n \in S \cap DOMAIN rows}
  IN IF next = S THEN S ELSE Reachable(rows, next)

\* every identifier reachable from n is a terminal or has a row
Intact(rows, n) == Reachable(rows, {n}) \subseteq (DOMAIN rows) \cup Terminals

(***************************************************************************)
(* The caller.  It passes the handles it was given (and the two terminals) *)
(* and, after clear(roots), keeps only the handles it listed as roots.     *)
(***************************************************************************)
Operands == formulas \cup {<<get_zero_node, TTFalse>>, <<get_one_node, TTTrue>>}

Handles == {f[1] : f \in formulas}

Call(op, args, r) ==
  [op |-> op, args |-> args, ret |-> r.ret, err |-> r.err, evicted |-> {}]

Commit(s) ==
  /\ variable_ordering' = s.variable_ordering
  /\ var_id' = s.var_id
  /\ node_id' = s.node_id
  /\ node_to_row' = s.node_to_row
  /\ row_to_node' = s.row_to_node
  /\ node_to_var_id' = s.node_to_var_id
  /\ cache_get_cofactors' = s.cache_get_cofactors
  /\ cache_ite' = s.cache_ite
  /\ cache_conjunction' = s.cache_conjunction
  /\ cache_disjunction' = s.cache_disjunction
  /\ cache_pre_image' = s.cache_pre_image

Given(r, t) == IF r.err = None THEN formulas \cup {<<r.ret, t>>} ELSE formulas

ScriptIdle ==
  [pc |-> "idle", x |-> << >>, state |-> << >>, primed |-> << >>, targets |-> << >>,
   t |-> << >>, delta |-> NoRet, s |-> NoRet, pre |-> NoRet]

\* BDD.__init__
Init ==
  /\ variable_ordering = << >>
  /\ var_id = 0
  /\ node_id = 2
  /\ node_to_row = EmptyMap
  /\ row_to_node = EmptyMap
  /\ node_to_var_id = (get_one_node :> Infinity) @@ (get_zero_node :> Infinity)
  /\ cache_get_cofactors = EmptyMap
  /\ cache_ite = EmptyMap
  /\ cache_conjunction = EmptyMap
  /\ cache_disjunction = EmptyMap
  /\ cache_pre_image = EmptyMap
  /\ formulas = {}
  /\ last = [op |-> "init", args |-> << >>, ret |-> NoRet, err |-> None, evicted |-> {}]
  /\ clears = 0
  /\ calls = 0
  /\ script = ScriptIdle

CreateVariable(is_primed) ==
  /\ var_id < MaxVars
  /\ \E r \in {create_variable(Self, is_primed)} :
       /\ Commit(r.self)
       /\ last' = Call("create_variable", <<is_primed>>, r)
  /\ UNCHANGED <<formulas, clears, calls, script>>

CreateVariableNode(is_primed) ==
  /\ var_id < MaxVars
  /\ node_id <= MaxNodeId
  /\ \E r \in {create_variable_node(Self, is_primed)} :
       /\ Commit(r.self)
       /\ last' = Call("create_variable_node", <<is_primed>>, r)
       /\ formulas' = Given(r, TTVar(var_id))
  /\ UNCHANGED <<clears, calls, script>>

\* a call on nodes: counted, and started only while identifiers are left
Counted ==
  /\ calls < MaxCalls
  /\ calls' = calls + 1
  /\ node_id <= MaxNodeId
  /\ UNCHANGED <<clears, script>>

NodeFromVariable(v) ==
  /\ Counted
  /\ \E r \in {node_from_variable(Self, v)} :
       /\ Commit(r.self)
       /\ last' = Call("node_from_variable", <<v>>, r)
       /\ formulas' = Given(r, TTVar(v))

\* make called as section 4.2 of the documentation asks: v above both children
Make(v, f, g) ==
  /\ Counted
  /\ {f[1], g[1]} \subseteq DOMAIN node_to_var_id
  /\ v < node_to_var_id[f[1]]
  /\ v < node_to_var_id[g[1]]
  /\ \E r \in {make(Self, v, f[1], g[1])} :
       /\ Commit(r.self)
       /\ last' = Call("make", <<v, f[1], g[1]>>, r)
       /\ formulas' = Given(r, TTIte(TTVar(v), f[2], g[2]))

Neg(f) ==
  /\ Counted
  /\ \E r \in {neg(Self, f[1])} :
       /\ Commit(r.self)
       /\ last' = Call("neg", <<f[1]>>, r)
       /\ formulas' = Given(r, TTNot(f[2]))

Conjunction(f, g) ==
  /\ Counted
  /\ \E r \in {conjunction(Self, f[1], g[1])} :
       /\ Commit(r.self)
       /\ last' = Call("conjunction", <<f[1], g[1]>>, r)
       /\ formulas' = Given(r, f[2] \cap g[2])

Disjunction(f, g) ==
  /\ Counted
  /\ \E r \in {disjunction(Self, f[1], g[1])} :
       /\ Commit(r.self)
       /\ last' = Call("disjunction", <<f[1], g[1]>>, r)
       /\ formulas' = Given(r, f[2] \cup g[2])

Ite(f, g, h) ==
  /\ Counted
  /\ \E r \in {ite(Self, f[1], g[1], h[1])} :
       /\ Commit(r.self)
       /\ last' = Call("ite", <<f[1], g[1], h[1]>>, r)
       /\ formulas' = Given(r, TTIte(f[2], g[2], h[2]))

\* pre_image called as its docstring asks: interleaved ordering, S over unprimed variables
PreImage(f, g) ==
  /\ Counted
  /\ Interleaved(variable_ordering)
  /\ TTSupport(g[2]) \cap PrimedLevels = {}
  /\ \E r \in {pre_image(Self, f[1], g[1])} :
       /\ Commit(r.self)
       /\ last' = Call("pre_image", <<f[1], g[1]>>, r)
       /\ formulas' = Given(r, TTPreImage(f[2], g[2]))

Clear(R) ==
  /\ calls < MaxCalls
  /\ calls' = calls + 1
  /\ \E r \in {clear(Self, SortedSeq(R))} :
       /\ Commit(r.self)
       /\ last' = [op |-> "clear", args |-> SortedSeq(R), ret |-> NoRet, err |-> r.err,
                   evicted |-> IF r.err = None THEN r.ret ELSE {}]
       /\ formulas' = IF r.err = None THEN {f \in formulas : f[1] \in R} ELSE formulas
       /\ clears' = IF r.err = None THEN clears + 1 ELSE clears
  /\ UNCHANGED script

\* the caller declares x_i unprimed and x_i' primed in turn, as pre_image asks
NextPrimed == (var_id % 2 = 1)

Next ==
  \/ CreateVariable(NextPrimed)
  \/ CreateVariableNode(NextPrimed)
  \/ \E v \in 0 .. (var_id - 1) : NodeFromVariable(v)
  \/ \E v \in 0 .. (var_id - 1) : \E f, g \in formulas : Make(v, f, g)
  \/ \E f \in formulas : Neg(f)
  \/ \E f, g \in formulas : Conjunction(f, g)
  \/ \E f, g \in formulas : Disjunction(f, g)
  \/ \E f, g \in formulas : \E h \in Operands : Ite(f, g, h)
  \/ \E f, g \in formulas : PreImage(f, g)
  \/ \E R \in SUBSET Handles : Clear(R)

Spec == Init /\ [][Next]_vars

(***************************************************************************)
(* The Boolean operators alone, every operand a handle or a terminal.      *)
(***************************************************************************)
NextAlg ==
  /\ calls < MaxAlgCalls
  /\ \/ CreateVariableNode(NextPrimed)
     \/ \E f \in Operands : Neg(f)
     \/ \E f, g \in Operands : Conjunction(f, g)
     \/ \E f, g \in Operands : Disjunction(f, g)
     \/ \E f, g, h \in Operands : Ite(f, g, h)

SpecAlg == Init /\ [][NextAlg]_vars

(***************************************************************************)
(* Claims about the manager under every caller (Spec).                     *)
(***************************************************************************)
Range(f) == {f[x] : x \in DOMAIN f}

Stored == DOMAIN node_to_row

\* the manager as it stands, with every memo cache empty
Uncached(self) ==
  [self EXCEPT !.cache_get_cofactors = EmptyMap, !.cache_ite = EmptyMap,
               !.cache_conjunction = EmptyMap, !.cache_disjunction = EmptyMap,
               !.cache_pre_image = EmptyMap]

\* the identifiers a cache mentions, in a key or in a value
CacheIds ==
  UNION ({{k[1], cache_get_cofactors[k][1], cache_get_cofactors[k][2]} :
            k \in DOMAIN cache_get_cofactors}
    \cup {{k[1], k[2], k[3], cache_ite[k]} : k \in DOMAIN cache_ite}
    \cup {{k[1], k[2], cache_conjunction[k]} : k \in DOMAIN cache_conjunction}
    \cup {{k[1], k[2], cache_disjunction[k]} : k \in DOMAIN cache_disjunction}
    \cup {{k[1], k[2], cache_pre_image[k]} : k \in DOMAIN cache_pre_image})

Same(r, v) == r.err = None /\ r.ret = v

\* every cache entry is what its operation computes from scratch on the current store
Recomputed ==
  /\ \A k \in DOMAIN cache_get_cofactors :
       Same(get_cofactors_body(Uncached(Self), k[1], k[2]), cache_get_cofactors[k])
  /\ \A k \in DOMAIN cache_ite :
       Same(ite_body(Uncached(Self), k[1], k[2], k[3]), cache_ite[k])
  /\ \A k \in DOMAIN cache_conjunction :
       Same(conjunction_body(Uncached(Self), k[1], k[2]), cache_conjunction[k])
  /\ \A k \in DOMAIN cache_disjunction :
       Same(disjunction_body(Uncached(Self), k[1], k[2]), cache_disjunction[k])
  /\ \A k \in DOMAIN cache_pre_image :
       Same(pre_image_body(Uncached(Self), k[1], k[2]), cache_pre_image[k])

\* C1: after a call clear(R) every memo-cache entry still held is valid: neither its
\* key nor its value is an identifier that clear evicted, and recomputing the
\* operation from scratch on the current store yields the cached identifier.
CachesValidAfterClear ==
  (last.op = "clear" /\ last.err = None) =>
     /\ CacheIds \cap last.evicted = {}
     /\ Recomputed

\* C2: after clear([h]) for a stored node h, conjunction(h, neg(h)) and
\* disjunction(h, neg(h)) complete without error and return 0 and 1.
ComplementLawsAfterClear ==
  (last.op = "clear" /\ last.err = None /\ Len(last.args) = 1 /\ last.args[1] \in Stored) =>
     LET h == last.args[1]
         n == neg(Self, h)
         c == Then(n, LAMBDA x : conjunction(x.self, h, x.ret))
         d == Then(n, LAMBDA x : Then(conjunction(x.self, h, x.ret), LAMBDA y :
                                   disjunction(y.self, h, x.ret)))
     IN /\ Same(c, get_zero_node)
        /\ Same(d, get_one_node)

\* C3: after any sequence of operations no two distinct stored identifiers have the
\* same (level, high, low) triple and no stored decision node has high = low.
ReducedUnique ==
  /\ \A n \in Stored : node_to_row[n][2] # node_to_row[n][3]
  /\ \A m, n \in Stored : node_to_row[m] = node_to_row[n] => m = n

\* after a clear, with several nodes stored, make answered with a node already stored
ReducedUniqueWitness ==
  /\ clears > 0
  /\ last.op = "make"
  /\ last.err = None
  /\ last.ret \in Stored
  /\ last.ret < node_id - 1
  /\ Cardinality(Stored) >= 3

\* C4: after any sequence of the public operators every stored decision node n has
\* level(n) < level(high(n)) and level(n) < level(low(n)), terminals at +infinity.
Ordered ==
  \A n \in Stored :
    /\ {node_to_row[n][2], node_to_row[n][3]} \subseteq DOMAIN node_to_var_id
    /\ node_to_var_id[n] < node_to_var_id[node_to_row[n][2]]
    /\ node_to_var_id[n] < node_to_var_id[node_to_row[n][3]]

\* C6: clear(R), every element of R a terminal or a stored node, leaves exactly the
\* decision nodes reachable from R through child edges in the node store, in the
\* unique table and in the level map.
ClearKeepsReachable ==
  \A R \in SUBSET (Handles \cap (Stored \cup Terminals)) :
    LET r == clear(Self, SortedSeq(R))
        kept == Reachable(node_to_row, R) \ Terminals
    IN /\ r.err = None
       /\ DOMAIN r.self.node_to_row = kept
       /\ Range(r.self.row_to_node) = kept
       /\ DOMAIN r.self.node_to_var_id = kept \cup Terminals

\* C10: for stored or terminal a and b, conjunction returns 0 if a = 0 or b = 0, b if
\* a = 1, a if b = 1, a if a = b; disjunction returns 1 if a = 1 or b = 1, b if a = 0,
\* a if b = 0, a if a = b.
ShortCircuits ==
  \A a, b \in Stored \cup Terminals :
    LET c == conjunction(Self, a, b)
        d == disjunction(Self, a, b)
    IN /\ (a = get_zero_node \/ b = get_zero_node) => Same(c, get_zero_node)
       /\ (a = get_one_node) => Same(c, b)
       /\ (b = get_one_node) => Same(c, a)
       /\ (a = b) => Same(c, a)
       /\ (a = get_one_node \/ b = get_one_node) => Same(d, get_one_node)
       /\ (a = get_zero_node) => Same(d, b)
       /\ (b = get_zero_node) => Same(d, a)
       /\ (a = b) => Same(d, a)

(***************************************************************************)
(* Claims about the Boolean operators alone (SpecAlg).                     *)
(***************************************************************************)
\* C5: formulas built from the declared variables with neg, conjunction, disjunction
\* and ite get the same identifier if and only if they have the same truth table.
Canonical ==
  \A f, g \in Operands : (f[2] = g[2]) <=> (f[1] = g[1])

\* conjunction(a, b) and conjunction(b, a) were both computed, on two distinct variables
CanonicalWitness ==
  \E k \in DOMAIN cache_conjunction :
    /\ k[1] # k[2]
    /\ {k[1], k[2]} \cap Terminals = {}
    /\ <<k[2], k[1]>> \in DOMAIN cache_conjunction
    /\ cache_conjunction[k] \in Stored
    /\ last.op = "conjunction"

Neg2(self, x) == Then(neg(self, x), LAMBDA n : neg(n.self, n.ret))

NegAnd(self, a, b) == Then(conjunction(self, a, b), LAMBDA c : neg(c.self, c.ret))

OrNeg(self, a, b) ==
  Then(neg(self, a), LAMBDA na :
  Then(neg(na.self, b), LAMBDA nb : disjunction(nb.self, na.ret, nb.ret)))

NegOr(self, a, b) == Then(disjunction(self, a, b), LAMBDA d : neg(d.self, d.ret))

AndNeg(self, a, b) ==
  Then(neg(self, a), LAMBDA na :
  Then(neg(na.self, b), LAMBDA nb : conjunction(nb.self, na.ret, nb.ret)))

\* C9: for all stored nodes x, a, b reached by the Boolean operators, neg(neg(x)) = x,
\* neg(conjunction(a, b)) = disjunction(neg(a), neg(b)) and
\* neg(disjunction(a, b)) = conjunction(neg(a), neg(b)), as identifiers.
DeMorgan ==
  /\ \A x \in Stored : Same(Neg2(Self, x), x)
  /\ \A a, b \in Stored :
       /\ NegAnd(Self, a, b).err = None
       /\ NegAnd(Self, a, b).ret = OrNeg(NegAnd(Self, a, b).self, a, b).ret
       /\ OrNeg(NegAnd(Self, a, b).self, a, b).err = None
       /\ NegOr(Self, a, b).err = None
       /\ NegOr(Self, a, b).ret = AndNeg(NegOr(Self, a, b).self, a, b).ret
       /\ AndNeg(NegOr(Self, a, b).self, a, b).err = None

\* the caller negated a conjunction of two distinct stored nodes
DeMorganWitness ==
  /\ last.op = "neg"
  /\ last.err = None
  /\ \E k \in DOMAIN cache_conjunction :
       /\ k[1] # k[2]
       /\ {k[1], k[2]} \cap Terminals = {}
       /\ cache_conjunction[k] = last.args[1]
       /\ last.args[1] \in Stored

(***************************************************************************)
(* The class BDD of src/pydd/bdd/bdd.py.  Its get_cofactors, make, ite and *)
(* conjunction are, statement for statement, those of src/pydd/bdd.py and  *)
(* are the operators above; its variables have no is_primed, its neg and   *)
(* its disjunction differ, and it has no pre_image and no clear.           *)
(***************************************************************************)
legacy_create_variable(self) == create_variable(self, FALSE)

legacy_create_variable_node(self) ==
  Then(legacy_create_variable(self), LAMBDA r :
    make(r.self, r.ret, get_one_node, get_zero_node))

legacy_neg(self, a) == ite(self, a, get_one_node, get_zero_node)

RECURSIVE legacy_disjunction(_, _, _)
legacy_disjunction_body(self, a, b) ==
  IF a = get_one_node \/ b = get_one_node THEN Return(self, get_one_node)
  ELSE IF a = b /\ a = get_zero_node THEN Return(self, get_one_node)
  ELSE IF ~ ({a, b} \subseteq DOMAIN self.node_to_var_id) THEN Raise(self, "KeyError")
  ELSE
    LET min_var_id == Min2(self.node_to_var_id[a], self.node_to_var_id[b]) IN
    Then(get_cofactors(self, a, min_var_id), LAMBDA ca :
    Then(get_cofactors(ca.self, b, min_var_id), LAMBDA cb :
    Then(legacy_disjunction(cb.self, ca.ret[1], cb.ret[1]), LAMBDA w1 :
    Then(legacy_disjunction(w1.self, ca.ret[2], cb.ret[2]), LAMBDA w0 :
      make(w0.self, min_var_id, w1.ret, w0.ret)))))

legacy_disjunction(self, a, b) ==
  IF <<a, b>> \in DOMAIN self.cache_disjunction
    THEN Return(self, self.cache_disjunction[<<a, b>>])
    ELSE Then(legacy_disjunction_body(self, a, b), LAMBDA r :
           [r EXCEPT !.self.cache_disjunction = (<<a, b>> :> r.ret) @@ @])

LegacyCreateVariableNode ==
  /\ var_id < MaxVars
  /\ node_id <= MaxNodeId
  /\ \E r \in {legacy_create_variable_node(Self)} :
       /\ Commit(r.self)
       /\ last' = Call("create_variable_node", << >>, r)
       /\ formulas' = Given(r, TTVar(var_id))
  /\ UNCHANGED <<clears, calls, script>>

LegacyNeg(f) ==
  /\ Counted
  /\ \E r \in {legacy_neg(Self, f[1])} :
       /\ Commit(r.self)
       /\ last' = Call("neg", <<f[1]>>, r)
       /\ formulas' = Given(r, TTNot(f[2]))

LegacyConjunction(f, g) ==
  /\ Counted
  /\ \E r \in {conjunction(Self, f[1], g[1])} :
       /\ Commit(r.self)
       /\ last' = Call("conjunction", <<f[1], g[1]>>, r)
       /\ formulas' = Given(r, f[2] \cap g[2])

LegacyDisjunction(f, g) ==
  /\ Counted
  /\ \E r \in {legacy_disjunction(Self, f[1], g[1])} :
       /\ Commit(r.self)
       /\ last' = Call("disjunction", <<f[1], g[1]>>, r)
       /\ formulas' = Given(r, f[2] \cup g[2])

NextLegacy ==
  /\ calls < MaxAlgCalls
  /\ \/ LegacyCreateVariableNode
     \/ \E f \in Operands : LegacyNeg(f)
     \/ \E f, g \in Operands : LegacyConjunction(f, g)
     \/ \E f, g \in Operands : LegacyDisjunction(f, g)

SpecLegacy == Init /\ [][NextLegacy]_vars

\* C8: in both BDD classes conjunction(1,1) = 1, conjunction(1,0) = 0,
\* disjunction(0,0) = 0, disjunction(1,0) = 1, neg(1) = 0 and neg(0) = 1.
TerminalAlgebra ==
  /\ (last.op = "conjunction" /\ last.args = <<1, 1>>) => (last.err = None /\ last.ret = 1)
  /\ (last.op = "conjunction" /\ last.args = <<1, 0>>) => (last.err = None /\ last.ret = 0)
  /\ (last.op = "disjunction" /\ last.args = <<0, 0>>) => (last.err = None /\ last.ret = 0)
  /\ (last.op = "disjunction" /\ last.args = <<1, 0>>) => (last.err = None /\ last.ret = 1)
  /\ (last.op = "neg" /\ last.args = <<1>>) => (last.err = None /\ last.ret = 0)
  /\ (last.op = "neg" /\ last.args = <<0>>) => (last.err = None /\ last.ret = 1)

(***************************************************************************)
(* examples/transition_system.py.  States are numbered 2 * x0 + x1, so     *)
(* state[1] is x00, state[2] is x01, state[3] is x10 and state[4] is x11.  *)
(* The script's transitions go from 00, 01, 10 and 11 in turn; the target  *)
(* of each and the set whose pre-image is taken are the caller's choice,   *)
(* the script's own being the targets 01, 10, 11, 01 and the set x10.      *)
(***************************************************************************)
States == 1 .. 4

ScriptTargets == <<2, 3, 4, 2>>

ScriptSet == 3

\* lines 4-7: x0, x0', x1, x1'
script_variables(self) ==
  Then(create_variable_node(self, FALSE), LAMBDA x0 :
  Then(create_variable_node(x0.self, TRUE), LAMBDA x0p :
  Then(create_variable_node(x0p.self, FALSE), LAMBDA x1 :
  Then(create_variable_node(x1.self, TRUE), LAMBDA x1p :
    Return(x1p.self, <<x0.ret, x0p.ret, x1.ret, x1p.ret>>)))))

\* lines 10-13 (and 16-19 on the primed variables): the four valuations of two variables
script_states(self, v0, v1) ==
  Then(neg(self, v0), LAMBDA n0 :
  Then(neg(n0.self, v1), LAMBDA n1 :
  Then(conjunction(n1.self, n0.ret, n1.ret), LAMBDA s00 :
  Then(neg(s00.self, v0), LAMBDA m0 :
  Then(conjunction(m0.self, m0.ret, v1), LAMBDA s01 :
  Then(neg(s01.self, v1), LAMBDA m1 :
  Then(conjunction(m1.self, v0, m1.ret), LAMBDA s10 :
  Then(conjunction(s10.self, v0, v1), LAMBDA s11 :
    Return(s11.self, <<s00.ret, s01.ret, s10.ret, s11.ret>>)))))))))

\* line 26: delta
script_delta(self, t) ==
  Then(disjunction(self, t[1], t[2]), LAMBDA d01 :
  Then(disjunction(d01.self, t[3], t[4]), LAMBDA d23 :
    disjunction(d23.self, d01.ret, d23.ret)))

Step(pc, r) == IF r.err = None THEN pc ELSE "failed"

TSVariables ==
  /\ script.pc = "idle"
  /\ var_id = 0
  /\ node_id = 2
  /\ \E r \in {script_variables(Self)} :
       /\ Commit(r.self)
       /\ last' = Call("create_variable_node", <<TRUE>>, r)
       /\ script' = [script EXCEPT !.pc = Step("variables", r), !.x = r.ret]
  /\ UNCHANGED <<formulas, clears, calls>>

TSStates ==
  /\ script.pc = "variables"
  /\ \E r \in {script_states(Self, script.x[1], script.x[3])} :
       /\ Commit(r.self)
       /\ last' = Call("conjunction", <<script.x[1], script.x[3]>>, r)
       /\ script' = [script EXCEPT !.pc = Step("states", r), !.state = r.ret]
  /\ UNCHANGED <<formulas, clears, calls>>

TSPrimedStates ==
  /\ script.pc = "states"
  /\ \E r \in {script_states(Self, script.x[2], script.x[4])} :
       /\ Commit(r.self)
       /\ last' = Call("conjunction", <<script.x[2], script.x[4]>>, r)
       /\ script' = [script EXCEPT !.pc = Step("primed", r), !.primed = r.ret]
  /\ UNCHANGED <<formulas, clears, calls>>

\* lines 22-25: the next transition, from state Len(t) + 1 to the state target
TSTransition(target) ==
  /\ script.pc = "primed"
  /\ Len(script.t) < 4
  /\ \E r \in {conjunction(Self, script.state[Len(script.t) + 1], script.primed[target])} :
       /\ Commit(r.self)
       /\ last' = Call("conjunction",
                       <<script.state[Len(script.t) + 1], script.primed[target]>>, r)
       /\ script' = [script EXCEPT !.pc = Step("primed", r),
                                   !.t = Append(@, r.ret),
                                   !.targets = Append(@, target)]
  /\ UNCHANGED <<formulas, clears, calls>>

TSDelta ==
  /\ script.pc = "primed"
  /\ Len(script.t) = 4
  /\ \E r \in {script_delta(Self, script.t)} :
       /\ Commit(r.self)
       /\ last' = Call("disjunction", << >>, r)
       /\ script' = [script EXCEPT !.pc = Step("delta", r), !.delta = r.ret]
  /\ UNCHANGED <<formulas, clears, calls>>

\* line 28
TSPreImage(s) ==
  /\ script.pc = "delta"
  /\ \E r \in {pre_image(Self, script.delta, script.state[s])} :
       /\ Commit(r.self)
       /\ last' = Call("pre_image", <<script.delta, script.state[s]>>, r)
       /\ script' = [script EXCEPT !.pc = Step("pre", r), !.s = s, !.pre = r.ret]
  /\ UNCHANGED <<formulas, clears, calls>>

\* line 30
TSClear ==
  /\ script.pc = "pre"
  /\ \E r \in {clear(Self, <<script.delta, script.pre>>)} :
       /\ Commit(r.self)
       /\ last' = [op |-> "clear", args |-> <<script.delta, script.pre>>, ret |-> NoRet,
                   err |-> r.err, evicted |-> IF r.err = None THEN r.ret ELSE {}]
       /\ clears' = IF r.err = None THEN clears + 1 ELSE clears
       /\ script' = [script EXCEPT !.pc = Step("done", r)]
  /\ UNCHANGED <<formulas, calls>>

NextTS ==
  \/ TSVariables
  \/ TSStates
  \/ TSPrimedStates
  \/ \E target \in States : TSTransition(target)
  \/ TSDelta
  \/ \E s \in States : TSPreImage(s)
  \/ TSClear

SpecTS == Init /\ [][NextTS]_vars

\* pre_image returned the node of { x | exists x'. T(x, x') and S(x') }
PreImageCorrect ==
  (last.op = "pre_image") =>
     /\ last.err = None
     /\ Intact(node_to_row, last.ret)
     /\ Denotes(node_to_row, last.ret)
          = TTPreImage(Denotes(node_to_row, last.args[1]), Denotes(node_to_row, last.args[2]))

TheExample == script.targets = ScriptTargets /\ script.s = ScriptSet

\* C7: on the interleaved ordering pre_image(T, S) is the node of
\* { x | exists x'. T(x, x') and S(x') }, and for the transitions 00->01, 01->10,
\* 10->11, 11->01 and S = state 10 it is the node of (not x0 and x1), state 01,
\* the one state with a transition to 10.
PreImageOfExampleIs01 ==
  /\ PreImageCorrect
  /\ (script.pc \in {"pre", "done"} /\ TheExample) => script.pre = script.state[2]

\* C7 as written: ... and for that example it is the node of (not x0 and not x1).
PreImageOfExampleIs00 ==
  /\ PreImageCorrect
  /\ (script.pc \in {"pre", "done"} /\ TheExample) => script.pre = script.state[1]

\* the script has taken the pre-image of x10 under its own four transitions
PreImageWitness ==
  /\ script.pc = "pre"
  /\ TheExample
  /\ last.op = "pre_image"
  /\ last.err = None
  /\ last.ret \in Stored

(***************************************************************************)
(* Claims about what the manager does with operands it should refuse.      *)
(***************************************************************************)
\* identifiers that are neither a terminal nor in the store: those make allocated and
\* clear evicted since
Unknown == (2 .. (node_id - 1)) \ Stored

DeclaredLevels == 0 .. (var_id - 1)

\* the call raised and left the node store as it was
Aborts(r) == r.err # None /\ r.self.node_to_row = node_to_row

\* C11: a public operation that receives an identifier that is not 0, not 1 and not
\* in the store aborts with an error instead of returning a result or adding a node.
UnknownIdentifierFatal ==
  \A u \in Unknown : \A k \in Stored \cup Terminals :
    /\ \A v \in DeclaredLevels :
         /\ Aborts(get_cofactors(Self, u, v))
         /\ Aborts(make(Self, v, u, k))
         /\ Aborts(make(Self, v, k, u))
    /\ Aborts(neg(Self, u))
    /\ Aborts(ite(Self, u, k, k))
    /\ Aborts(ite(Self, k, u, k))
    /\ Aborts(ite(Self, k, k, u))
    /\ Aborts(conjunction(Self, u, k))
    /\ Aborts(conjunction(Self, k, u))
    /\ Aborts(disjunction(Self, u, k))
    /\ Aborts(disjunction(Self, k, u))
    /\ Aborts(pre_image(Self, u, k))
    /\ Aborts(pre_image(Self, k, u))
    /\ Aborts(clear(Self, <<u>>))

\* C13: get_cofactors(n, v) returns (n, n) when n is a terminal or level(v) < level(n),
\* (high(n), low(n)) when level(v) = level(n), and raises when level(v) > level(n).
CofactorContract ==
  \A n \in Stored \cup Terminals : \A v \in DeclaredLevels :
    LET r == get_cofactors(Self, n, v) IN
    /\ (n \in Terminals \/ v < node_to_var_id[n]) => Same(r, <<n, n>>)
    /\ (n \in Stored /\ v = node_to_var_id[n])
         => Same(r, <<node_to_row[n][2], node_to_row[n][3]>>)
    /\ (n \in Stored /\ v > node_to_var_id[n]) => r.err # None

(***************************************************************************)
(* A caller that declares its variables primed or unprimed in any order    *)
(* and calls pre_image on whatever it holds: pre_image itself checks       *)
(* neither the ordering nor its operands.                                  *)
(***************************************************************************)
PreImageUnchecked(f, g) ==
  /\ Counted
  /\ \E r \in {pre_image(Self, f[1], g[1])} :
       /\ Commit(r.self)
       /\ last' = Call("pre_image", <<f[1], g[1]>>, r)
       /\ UNCHANGED formulas

NextAnyOrder ==
  \/ \E is_primed \in BOOLEAN : CreateVariableNode(is_primed)
  \/ \E f \in formulas : Neg(f)
  \/ \E f, g \in formulas : Conjunction(f, g)
  \/ \E f, g \in Operands : PreImageUnchecked(f, g)

SpecAnyOrder == Init /\ [][NextAnyOrder]_vars

\* an unprimed variable at level L whose level L + 1 is missing or not primed
NotInterleaved ==
  \E L \in 1 .. Len(variable_ordering) :
    /\ ~ variable_ordering[L]
    /\ (L = Len(variable_ordering) \/ ~ variable_ordering[L + 1])

\* C12: when the ordering is not interleaved as pre_image requires, pre_image raises
\* an error other than the unknown-identifier error instead of returning a node.
\* (Checked on the calls that get past pre_image's two tests for terminal operands.)
OrderingValidated ==
  (last.op = "pre_image" /\ NotInterleaved /\ {last.args[1], last.args[2]} \subseteq Stored)
     => last.err \notin {None, "KeyError"}

\* the operands of the recursive calls one call makes, from the bodies of the operators
Cof(n, v) == get_cofactors_body(Self, n, v).ret

Level(n) == node_to_var_id[n]

RecIte(a, b, c) ==
  IF a \in Terminals THEN {}
  ELSE LET m == Min3(Level(a), Level(b), Level(c))
       IN {<<Cof(a, m)[i], Cof(b, m)[i], Cof(c, m)[i]>> : i \in 1 .. 2}

RecAnd(a, b) ==
  IF a = get_zero_node \/ b = get_zero_node \/ (a = b /\ a = get_one_node) THEN {}
  ELSE LET m == Min2(Level(a), Level(b))
       IN {<<Cof(a, m)[i], Cof(b, m)[i]>> : i \in 1 .. 2}

RecOr(a, b) ==
  IF a = get_one_node \/ b = get_one_node \/ (a = b /\ a = get_zero_node) THEN {}
  ELSE LET m == Min2(Level(a), Level(b))
       IN {<<Cof(a, m)[i], Cof(b, m)[i]>> : i \in 1 .. 2}

RecPre(a, b) ==
  IF a = get_zero_node \/ b = get_zero_node \/ (a = get_one_node /\ b = get_one_node)
    THEN {}
  ELSE LET m == Min2(Level(a), Level(b)) IN
       IF variable_ordering[m + 1] THEN {<<Cof(a, m)[i], b>> : i \in 1 .. 2}
       ELSE IF m + 1 >= Len(variable_ordering) THEN {}
       ELSE {<<Cof(Cof(a, m)[i], m + 1)[j], Cof(b, m)[j]>> : i \in 1 .. 2, j \in 1 .. 2}

MinLevel(t) == CHOOSE m \in {Level(t[i]) : i \in DOMAIN t} :
                 \A i \in DOMAIN t : m <= Level(t[i])

Deeper(calls_made, t) == \A u \in calls_made : MinLevel(u) > MinLevel(t)

\* C14: every call of ite, conjunction, disjunction and pre_image on stored operands
\* terminates: each recursive call has a strictly greater minimum operand level than
\* its caller, so the recursion is no deeper than the number of declared variables.
RecursionDescends ==
  /\ last.err # "RecursionError"
  /\ \A a, b \in Stored \cup Terminals :
       /\ Deeper(RecAnd(a, b), <<a, b>>)
       /\ Deeper(RecOr(a, b), <<a, b>>)
       /\ Deeper(RecPre(a, b), <<a, b>>)
       /\ \A c \in Stored \cup Terminals : Deeper(RecIte(a, b, c), <<a, b, c>>)

(***************************************************************************)
(* Claims about the node store, the unique table and the identifiers.      *)
(***************************************************************************)
\* C15: no operation other than clear removes a decision-node record, no operation
\* changes the (level, high, low) triple of an identifier stored before and after it,
\* and clear leaves the variable registry unchanged.
IdentifiersStable ==
  [][/\ (last'.op # "clear") => (DOMAIN node_to_row \subseteq DOMAIN node_to_row')
     /\ \A n \in (DOMAIN node_to_row) \cap (DOMAIN node_to_row') :
          node_to_row'[n] = node_to_row[n]
     /\ (last'.op = "clear") => (variable_ordering' = variable_ordering /\ var_id' = var_id)
    ]_vars

\* a clear that evicted some nodes and kept others, with variables declared
IdentifiersStableWitness ==
  /\ last.op = "clear"
  /\ last.err = None
  /\ last.evicted # {}
  /\ Stored # {}
  /\ var_id > 0

\* C17: the unique table is the exact inverse of the node store, and the level map has
\* as keys exactly the stored identifiers plus 0 and 1, each stored identifier mapped
\* to the level in its triple and 0 and 1 to +infinity.
TablesConsistent ==
  /\ DOMAIN row_to_node = Range(node_to_row)
  /\ \A n \in Stored : row_to_node[node_to_row[n]] = n
  /\ DOMAIN node_to_var_id = Stored \cup Terminals
  /\ \A n \in Stored : node_to_var_id[n] = node_to_row[n][1]
  /\ \A n \in Terminals : node_to_var_id[n] = Infinity

\* after a clear that evicted a node, make stored a new one
TablesConsistentWitness ==
  /\ clears > 0
  /\ Unknown # {}
  /\ last.op = "make"
  /\ last.err = None
  /\ last.ret = node_id - 1
  /\ last.ret \in Stored

\* C18: every identifier make allocates is >= 2 and greater than every identifier
\* allocated before it, also across clear: an evicted identifier is never issued again.
NeverReissued ==
  [][/\ node_id >= 2
     /\ node_id' >= node_id
     /\ ((DOMAIN node_to_row') \ (DOMAIN node_to_row)) \subseteq node_id .. (node_id' - 1)
    ]_vars

\* after a clear evicted a node, an operator allocated a node with a greater identifier
NeverReissuedWitness ==
  /\ clears > 0
  /\ last.op \in {"neg", "conjunction", "disjunction", "ite"}
  /\ last.err = None
  /\ last.ret = node_id - 1
  /\ last.ret \in Stored
  /\ \E e \in Unknown : e < last.ret

(***************************************************************************)
(* A caller that passes an operator only nodes that are stored, that is,   *)
(* nodes it named as roots in every clear so far (clear evicts the others  *)
(* and their identifiers are never issued again).                          *)
(***************************************************************************)
Kept == {f \in formulas : f[1] \in Stored}

NextRooted ==
  \/ CreateVariableNode(NextPrimed)
  \/ \E f \in Kept : Neg(f)
  \/ \E f, g \in Kept : Conjunction(f, g)
  \/ \E f, g \in Kept : Disjunction(f, g)
  \/ \E f, g \in Kept : \E h \in Kept \cup {<<get_one_node, TTTrue>>} : Ite(f, g, h)
  \/ \E R \in SUBSET {f[1] : f \in Kept} : Clear(R)

SpecRooted == Init /\ [][NextRooted]_vars

\* C16: when every clear(R) names all the nodes the caller passes to an operator
\* later, every high and low child of every stored decision node is a terminal or
\* itself a stored decision node.
ChildrenStored ==
  \A n \in Stored : {node_to_row[n][2], node_to_row[n][3]} \subseteq Stored \cup Terminals

\* C19: on an interleaved ordering, with S over unprimed variables only, every decision
\* node reachable from the node pre_image(T, S) returns has an unprimed (even) level.
PreImageUnprimed ==
  (last.op = "pre_image" /\ last.err = None) =>
     /\ Intact(node_to_row, last.ret)
     /\ \A n \in Reachable(node_to_row, {last.ret}) \ Terminals :
          /\ node_to_var_id[n] % 2 = 0
          /\ ~ variable_ordering[node_to_var_id[n] + 1]

\* the script's pre_image returned a decision node and the relation mentions x0' and x1'
PreImageUnprimedWitness ==
  /\ script.pc = "pre"
  /\ last.op = "pre_image"
  /\ last.ret \in Stored
  /\ \E n \in Reachable(node_to_row, {script.delta}) \cap Stored : node_to_var_id[n] = 1
  /\ \E n \in Reachable(node_to_row, {script.delta}) \cap Stored : node_to_var_id[n] = 3

=============================================================================
